---- MODULE Spec2Model ----
(***************************************************************************)
(* Low-power LCD clock (LCDClock.ino): the 64 Hz periodic interrupt        *)
(* handler ISR(RTC_PIT_vect), the state it owns (cycles, halfsecs, the     *)
(* output registers of the display ports) and the three renderers it       *)
(* calls.  One step of the model is one complete run of the handler.       *)
(***************************************************************************)
EXTENDS Integers, Sequences, FiniteSets, TLC

VARIABLES
  cycles,      \* static uint8_t cycles of the handler
  halfsecs,    \* static unsigned long halfsecs of the handler
  Digit,       \* OUT registers of Digit[0..3] (PORTD, PORTC, PORTA, PORTB)
  PORTE,       \* PORTE.OUT: the two backplane (COM) lines PE0, PE1
  PORTF,       \* PORTF.OUT: segment 1A (PF5) and colon (PF4)
  twelveHour,  \* TRUE iff the build defines TWELVEHOUR
  nticks,      \* history: number of handler runs since power-on (SpecDay: since the last boundary)
  written,     \* history: the pattern most recently written by a renderer
  last         \* history: what the most recent handler run did

vars == <<cycles, halfsecs, Digit, PORTE, PORTF, twelveHour, nticks, written, last>>

-----------------------------------------------------------------------------
(* Bit operations on naturals (the C operators ^, & and |).                *)

RECURSIVE Xor(_, _)
Xor(a, b) ==
  IF a = 0 THEN b
  ELSE IF b = 0 THEN a
  ELSE (((a % 2) + (b % 2)) % 2) + 2 * Xor(a \div 2, b \div 2)

RECURSIVE And(_, _)
And(a, b) ==
  IF a = 0 \/ b = 0 THEN 0
  ELSE ((a % 2) * (b % 2)) + 2 * And(a \div 2, b \div 2)

Or(a, b) == a + b - And(a, b)

Byte == 0..255

\* Conversion of a value to the 16-bit int of the AVR.
ToInt16(x) ==
  LET m == x % 65536 IN IF m >= 32768 THEN m - 65536 ELSE m

\* C division and remainder: the quotient is truncated toward zero.
CDiv(a, b) == IF a >= 0 THEN a \div b ELSE -((-a) \div b)
CMod(a, b) == a - b * CDiv(a, b)

-----------------------------------------------------------------------------
(* Seven segment definitions.                                              *)

CharLen == 15

CharTable == <<126, 48, 109, 121, 51, 91, 95, 112, 127, 123, 0, 1, 99, 78, 62>>

Char == [i \in 0..(CharLen - 1) |-> CharTable[i + 1]]

Space == 10
Minus == 11
Degree == 12
Celsius == 13
Vee == 14

\* The values a read of Char[i] can produce: the table entry, or, for an
\* index outside the table, whatever byte lies at that address.
CharAt(i) == IF i \in 0..(CharLen - 1) THEN {Char[i]} ELSE Byte

PIN0_bm == 1
PIN1_bm == 2
PIN4_bm == 16
PIN5_bm == 32

-----------------------------------------------------------------------------
(* Time constants of the handler.                                          *)

HalfSecsPerDay == 172800
HalfSecsPerHour == 7200
HalfSecsPerMinute == 120
CyclesPerHalfSec == 32
TimeTicks == 108
VoltageTick == 108
TempTick == 114

-----------------------------------------------------------------------------
(* Renderers.  Each yields the set of patterns [D, F] it can leave in the  *)
(* OUT registers of the four digit ports and of PORTF.                     *)

Pattern(d0, d1, d2, d3, f) == [D |-> <<d0, d1, d2, d3>>, F |-> f]

\* PORTF.OUT = (units>>1 & PIN5_bm) | colon
PortF(units, colon) == Or(And(units \div 2, PIN5_bm), colon)

\* Variant: the 12-hour mapping taken in every build.
DisplayHours_Twelve(h, twelve) == ((h \div HalfSecsPerHour) % 12) + 1

DisplayHours(h, twelve) ==
  IF twelve THEN ((h \div HalfSecsPerHour) % 12) + 1
  ELSE (h \div HalfSecsPerHour) % 24

DisplayTime(h, twelve) ==
  LET minutes == ((h \div HalfSecsPerMinute) % 60) % 256
      hours == DisplayHours(h, twelve) % 256
      colon == (h % 2) * PIN4_bm
  IN { Pattern(d0, d1, d2, units, PortF(units, colon)) :
         d0 \in CharAt(hours \div 10), d1 \in CharAt(hours % 10),
         d2 \in CharAt(minutes \div 10), units \in CharAt(minutes % 10) }

\* Variant: the decimal point is not set in the second digit.
DisplayVoltage_NoPoint(adc_reading) ==
  LET voltage == adc_reading \div 50
  IN { Pattern(Char[Space], d1, d2, Char[Vee], PortF(Char[Vee], 0)) :
         d1 \in CharAt(voltage \div 10), d2 \in CharAt(voltage % 10) }

DisplayVoltage(adc_reading) ==
  LET voltage == adc_reading \div 50
  IN { Pattern(Char[Space], Or(d1, 128), d2, Char[Vee], PortF(Char[Vee], 0)) :
         d1 \in CharAt(voltage \div 10), d2 \in CharAt(voltage % 10) }

\* Variant: the product is shifted without the rounding bias 0x0800.
Kelvin_NoBias(offset, slope, adc_reading) ==
  LET d == (offset - adc_reading) % 65536
  IN d * (slope \div 4096) + ((d * (slope % 4096)) \div 4096)

\* kelvin = ((uint32_t)(offset - adc_reading) * slope + 0x0800) >> 12; the
\* subtraction is made in the 16-bit unsigned int of the AVR, the rest in 32
\* bits, where 65535 * 65535 + 0x0800 does not wrap.  The product is split at
\* bit 12 of slope to keep every intermediate value below 2^31:
\* (d * slope + 2048) >> 12 = d * (slope >> 12) + ((d * (slope & 0xFFF) + 2048) >> 12).
Kelvin(offset, slope, adc_reading) ==
  LET d == (offset - adc_reading) % 65536
  IN d * (slope \div 4096) + ((d * (slope % 4096) + 2048) \div 4096)

\* int celsius = abs(kelvin - 273).  kelvin - 273 is a uint32_t.  With abs
\* the macro of the core (x > 0 ? x : -x, evaluated in the type of x) the
\* unsigned value is returned as it is and then narrowed to int; with abs
\* the library function on int the value is narrowed first.
CelsiusOf(kelvin) ==
  LET narrowed == ToInt16(kelvin - 273)
  IN { narrowed, IF narrowed < 0 THEN ToInt16(-narrowed) ELSE narrowed }

DisplayTemp(offset, slope, adc_reading) ==
  LET kelvin == Kelvin(offset, slope, adc_reading)
  IN UNION { { Pattern(d0, d1, Char[Degree], Char[Celsius], PortF(Char[Celsius], 0)) :
                 d0 \in (IF kelvin < 273 THEN {Char[Minus]} ELSE CharAt(CDiv(celsius, 10))),
                 d1 \in CharAt(CMod(celsius, 10)) } :
             celsius \in CelsiusOf(kelvin) }

-----------------------------------------------------------------------------
(* The interrupt service routine.                                          *)

\* Digit[p]->OUTTGL = 0xFF; PORTE.OUTTGL = PIN0_bm | PIN1_bm;
\* PORTF.OUTTGL = PIN5_bm | PIN4_bm
\* (x ^ mask is mask - x when x has no bit outside mask.)
Toggle(x, mask) == IF And(x, mask) = x THEN mask - x ELSE Xor(x, mask)

ToggleDigit(d) == Toggle(d, 255)
\* Variant: only PE0 is toggled.
ToggleCOM_OnePin(e) == Toggle(e, PIN0_bm)

ToggleCOM(e) == Toggle(e, PIN0_bm + PIN1_bm)
ToggleF(f) == Toggle(f, PIN5_bm + PIN4_bm)

\* Variant: the half-second work is reached every 16 runs.
HalfSecondReached_Half(c) == ~(2 * c < CyclesPerHalfSec)

\* Variant: the half-second work is reached one run early.
HalfSecondReached_Odd(c) == ~(c < CyclesPerHalfSec - 1)

\* if (cycles < 32) return;
HalfSecondReached(c) == ~(c < CyclesPerHalfSec)

\* Variant: the advance does not wrap at the end of the day.
AdvanceTime_NoWrap(h) == h + 1

\* halfsecs = (halfsecs+1) % 172800
AdvanceTime(h) == (h + 1) % HalfSecsPerDay

\* Variant: the snap keeps the minute.
MinsAdjust_Stay(h) == (h \div HalfSecsPerMinute) * HalfSecsPerMinute

\* Variant: the hour block is dropped from the snapped value.
MinsAdjust_NoHour(h) == (((h \div HalfSecsPerMinute) + 1) % 60) * HalfSecsPerMinute

\* halfsecs = ((halfsecs/7200)*60 + (halfsecs/120 + 1)%60)*120
MinsAdjust(h) ==
  ((h \div HalfSecsPerHour) * 60 + (((h \div HalfSecsPerMinute) + 1) % 60)) * HalfSecsPerMinute

\* Variant: the hour advance wraps at the end of the day.
HoursAdjust_Wrapped(h) == (h + HalfSecsPerHour) % HalfSecsPerDay

\* halfsecs = halfsecs + 7200
HoursAdjust(h) == h + HalfSecsPerHour

\* Variant: the hours adjustment is skipped when the minutes button is read asserted.
AdjustTime_Exclusive(h, mins, hours) ==
  IF mins THEN ((h \div HalfSecsPerHour) * 60 + (((h \div HalfSecsPerMinute) + 1) % 60))
               * HalfSecsPerMinute
  ELSE IF hours THEN h + HalfSecsPerHour ELSE h

\* The two adjustments of lines 182-183, given the two button reads.
AdjustTime(h, mins, hours) ==
  LET afterMins == IF mins THEN MinsAdjust(h) ELSE h
  IN IF hours THEN HoursAdjust(afterMins) ELSE afterMins

\* Variant: the Voltage renderer runs at every boundary up to the temperature one.
SelectRenderer_Repeat(mins, hours, ticks) ==
  IF mins \/ hours \/ ticks < TimeTicks THEN "time"
  ELSE IF ticks < TempTick THEN "voltage"
  ELSE IF ticks = TempTick THEN "temp"
  ELSE "none"

\* Variant: the buttons do not force the Time renderer.
SelectRenderer_NoButtons(mins, hours, ticks) ==
  IF ticks < TimeTicks THEN "time"
  ELSE IF ticks = VoltageTick THEN "voltage"
  ELSE IF ticks = TempTick THEN "temp"
  ELSE "none"

\* if (MinsButton() || HoursButton() || ticks < 108) DisplayTime(halfsecs);
\* else if (ticks == 108) DisplayVoltage(); else if (ticks == 114) DisplayTemp();
SelectRenderer(mins, hours, ticks) ==
  IF mins \/ hours \/ ticks < TimeTicks THEN "time"
  ELSE IF ticks = VoltageTick THEN "voltage"
  ELSE IF ticks = TempTick THEN "temp"
  ELSE "none"

\* History record of a handler run that returned before the half-second work.
Accumulated(before, tog) ==
  [boundary |-> FALSE, before |-> before, tog |-> tog, ticks |-> 0,
   mins1 |-> FALSE, hours1 |-> FALSE, mins2 |-> FALSE, hours2 |-> FALSE,
   ran |-> "none"]

\* ADC results of the voltage measurement (12-bit, VDD * 500): 2.0 V, 3.3 V, 5.0 V.
VoltageSamples == {1000, 1650, 2500}

\* Calibration values and ADC results of the temperature measurement:
\* 293 K and 273 K.
TempSamples == {[offset |-> 3000, slope |-> 2400, adc |-> 2500],
                [offset |-> 3000, slope |-> 2400, adc |-> 2534]}

\* One run of the handler.  in.mins1 and in.hours1 are the button levels read
\* on lines 182 and 183, in.mins2 and in.hours2 those read on line 185.  The
\* ADC result and the calibration values are read by the renderers.
ISR(in) ==
  LET tog == [D |-> <<ToggleDigit(Digit[1]), ToggleDigit(Digit[2]),
                      ToggleDigit(Digit[3]), ToggleDigit(Digit[4])>>,
              E |-> ToggleCOM(PORTE),
              F |-> ToggleF(PORTF)]
      c == (cycles + 1) % 256
  IN /\ nticks' = nticks + 1
     /\ PORTE' = tog.E
     /\ UNCHANGED twelveHour
     /\ IF ~HalfSecondReached(c)
        THEN /\ cycles' = c
             /\ Digit' = tog.D
             /\ PORTF' = tog.F
             /\ UNCHANGED <<halfsecs, written>>
             /\ last' = Accumulated(halfsecs, tog)
        ELSE LET advanced == AdvanceTime(halfsecs)
                 ticks == (advanced % HalfSecsPerMinute) % 256
                 adjusted == AdjustTime(advanced, in.mins1, in.hours1)
                 ran == SelectRenderer(in.mins2, in.hours2, ticks)
                 outs == CASE ran = "time" -> DisplayTime(adjusted, twelveHour)
                           [] ran = "voltage" ->
                                UNION { DisplayVoltage(v) : v \in VoltageSamples }
                           [] ran = "temp" ->
                                UNION { DisplayTemp(t.offset, t.slope, t.adc) :
                                          t \in TempSamples }
                           [] OTHER -> {[D |-> tog.D, F |-> tog.F]}
             IN /\ cycles' = 0
                /\ halfsecs' = adjusted
                /\ \E o \in outs :
                     /\ Digit' = o.D
                     /\ PORTF' = o.F
                     /\ written' = IF ran = "none" THEN written ELSE o
                /\ last' = [boundary |-> TRUE, before |-> halfsecs, tog |-> tog,
                            ticks |-> ticks,
                            mins1 |-> in.mins1, hours1 |-> in.hours1,
                            mins2 |-> in.mins2, hours2 |-> in.hours2,
                            ran |-> ran]

-----------------------------------------------------------------------------
(* Inputs: the levels of the two buttons at the reads of one handler run.  *)

Buttons(m1, h1, m2, h2) == [mins1 |-> m1, hours1 |-> h1, mins2 |-> m2, hours2 |-> h2]

NoButtons == Buttons(FALSE, FALSE, FALSE, FALSE)

\* A run that returns at line 175 reads no button.
Accumulate == ~HalfSecondReached((cycles + 1) % 256) /\ ISR(NoButtons)

\* A run that reaches the half-second work, the button levels changing freely
\* between the reads.
HalfSecond ==
  /\ HalfSecondReached((cycles + 1) % 256)
  /\ \E m1, h1, m2, h2 \in BOOLEAN : ISR(Buttons(m1, h1, m2, h2))

-----------------------------------------------------------------------------
(* Power-on: the statics are zero, the OUT registers are zero.             *)

NoPattern == Pattern(0, 0, 0, 0, 0)

PowerOn ==
  /\ cycles = 0
  /\ halfsecs = 0
  /\ Digit = <<0, 0, 0, 0>>
  /\ PORTE = 0
  /\ PORTF = 0
  /\ nticks = 0
  /\ written = NoPattern
  /\ last = Accumulated(0, [D |-> <<0, 0, 0, 0>>, E |-> 0, F |-> 0])

Init == PowerOn /\ twelveHour \in BOOLEAN

\* Number of handler runs explored from power-on.
MaxTicks == 100

Tick == nticks < MaxTicks /\ Accumulate

Boundary == nticks < MaxTicks /\ HalfSecond

Next == Tick \/ Boundary

Spec == Init /\ [][Next]_vars

-----------------------------------------------------------------------------
(* The half-second boundary at the times of day.  The runs start two       *)
(* handler runs before a half-second boundary, in the 24-hour build (the   *)
(* build of the source as it stands, which does not define TWELVEHOUR).    *)
(* Each start state is a state of the clock: halfsecs = s is reached from  *)
(* 0 by holding the hours button, then the minutes button, then neither;   *)
(* the display then shows what the boundary that made halfsecs = s left,   *)
(* inverted once per run since.                                            *)

\* The start times: every hour of the day, with every minute of the hour at
\* the first and last Edge half-seconds of the minute, and every half-second
\* of the minute in the first and last Edge minutes of the hour.
Edge == 1

AtEdge(x, period) == x < Edge \/ x >= period - Edge

StartTimes ==
  { s \in 0..(HalfSecsPerDay - 1) :
      \/ AtEdge(s % HalfSecsPerMinute, HalfSecsPerMinute)
      \/ AtEdge((s \div HalfSecsPerMinute) % 60, 60) }

\* The patterns the boundary that set halfsecs to s can have written: the
\* time (s % 120 < 108, or the hours button held, which gives s >= 7200), or
\* else what the free-running clock wrote at tick 108 or 114 of the minute.
ShownAt(s, twelve) ==
  IF s % HalfSecsPerMinute < TimeTicks \/ s >= HalfSecsPerHour
  THEN DisplayTime(s, twelve)
  ELSE IF s % HalfSecsPerMinute < TempTick
       THEN UNION { DisplayVoltage(v) : v \in VoltageSamples }
       ELSE UNION { DisplayTemp(t.offset, t.slope, t.adc) : t \in TempSamples }

BeforeBoundary(s, c) ==
  /\ cycles = c
  /\ halfsecs = s
  /\ twelveHour = FALSE
  /\ nticks = c
  /\ PORTE = (c % 2) * (PIN0_bm + PIN1_bm)
  /\ \E w \in ShownAt(s, FALSE) :
       /\ written = w
       /\ Digit = IF c % 2 = 1
                  THEN <<ToggleDigit(w.D[1]), ToggleDigit(w.D[2]),
                         ToggleDigit(w.D[3]), ToggleDigit(w.D[4])>>
                  ELSE w.D
       /\ PORTF = IF c % 2 = 1 THEN ToggleF(w.F) ELSE w.F
  /\ last = Accumulated(s, [D |-> Digit, E |-> PORTE, F |-> PORTF])

InitDay == \E s \in StartTimes : BeforeBoundary(s, CyclesPerHalfSec - 2)

\* Number of handler runs of the half-second explored: up to the boundary.
MaxDayTicks == 32

\* The button levels hold for the time of one handler run.
HalfSecondSteady ==
  /\ HalfSecondReached((cycles + 1) % 256)
  /\ \E m, h \in BOOLEAN : ISR(Buttons(m, h, m, h))

TickDay == nticks < MaxDayTicks /\ Accumulate

BoundaryDay == nticks < MaxDayTicks /\ HalfSecondSteady

NextDay == TickDay \/ BoundaryDay

SpecDay == InitDay /\ [][NextDay]_vars

-----------------------------------------------------------------------------
(* Setting the clock.  From power-on the user holds the hours button for   *)
(* 24 half-seconds (a full turn of the hours), lets go for one, holds it   *)
(* for 23 more (hour 23), holds the minutes button for 59 (minute 59) and  *)
(* then lets go: the clock runs through midnight and on.                   *)

\* The half-second boundary that the next handler run takes, if it takes one.
BoundaryNo == (nticks + 1) \div CyclesPerHalfSec

UserHours(b) == b <= 24 \/ (b >= 26 /\ b <= 48)

UserMins(b) == b >= 49 /\ b <= 107

\* Number of handler runs explored: 107 half-seconds to set 23:59, 120 to
\* midnight and 130 beyond.
MaxSetTicks == 11424

TickSet == nticks < MaxSetTicks /\ Accumulate

BoundarySet ==
  /\ nticks < MaxSetTicks
  /\ HalfSecondReached((cycles + 1) % 256)
  /\ ISR(Buttons(UserMins(BoundaryNo), UserHours(BoundaryNo),
                 UserMins(BoundaryNo), UserHours(BoundaryNo)))

NextSet == TickSet \/ BoundarySet

SpecSet == Init /\ [][NextSet]_vars

-----------------------------------------------------------------------------
(* The Time renderer on its own: DisplayTime called with the start times   *)
(* as argument, in both builds.                                            *)

InitTime ==
  /\ cycles = 0
  /\ halfsecs \in StartTimes
  /\ twelveHour \in BOOLEAN
  /\ Digit = <<0, 0, 0, 0>>
  /\ PORTE = 0
  /\ PORTF = 0
  /\ nticks = 0
  /\ written = NoPattern
  /\ last = Accumulated(halfsecs, [D |-> <<0, 0, 0, 0>>, E |-> 0, F |-> 0])

CallDisplayTime ==
  /\ last.ran = "none"
  /\ \E o \in DisplayTime(halfsecs, twelveHour) :
       /\ Digit' = o.D
       /\ PORTF' = o.F
       /\ written' = o
  /\ last' = [last EXCEPT !.ran = "time"]
  /\ UNCHANGED <<cycles, halfsecs, PORTE, twelveHour, nticks>>

SpecTime == InitTime /\ [][CallDisplayTime]_vars

-----------------------------------------------------------------------------
(* The three renderers on their own: each is called once with inputs drawn *)
(* at the start, and the call records the table indexes it looks up.       *)

\* The indexes of Char read by DisplayTime, in the order of the four digits.
TimeIndex(h, twelve) ==
  LET minutes == ((h \div HalfSecsPerMinute) % 60) % 256
      hours == DisplayHours(h, twelve) % 256
  IN <<hours \div 10, hours % 10, minutes \div 10, minutes % 10>>

\* The indexes of Char read by DisplayVoltage.
VoltageIndex(adc_reading) ==
  LET voltage == adc_reading \div 50
  IN <<Space, voltage \div 10, voltage % 10, Vee>>

\* The indexes of Char read by DisplayTemp.
TempIndex(kelvin, celsius) ==
  <<IF kelvin < 273 THEN Minus ELSE CDiv(celsius, 10), CMod(celsius, 10),
    Degree, Celsius>>

\* History record of a renderer call: the inputs, and after the call the
\* locals kelvin and celsius and the indexes looked up.
Request(call, offset, slope, adc) ==
  [call |-> call, ran |-> "none", offset |-> offset, slope |-> slope,
   adc |-> adc, kelvin |-> 0, celsius |-> 0, idx |-> <<>>]

\* Times of day the clock can hold, one per minute: the day, and the hour
\* beyond it that the hours adjustment reaches.
RenderTimes ==
  {m * HalfSecsPerMinute + p :
     m \in 0..((HalfSecsPerDay + HalfSecsPerHour) \div HalfSecsPerMinute - 1),
     p \in {0, 1}}

\* uint16_t values of ADC0.RES given to DisplayVoltage: every reading up to
\* LastVoltageReading (voltage 0..104), and some beyond.
LastVoltageReading == 5249

VoltageReadings == 0..LastVoltageReading \cup {7000, 7499, 7500, 9999, 65535}

\* Readings given to DisplayTemp with the calibration of TempSamples, 428 K
\* down to 258 K, and the reading equal to the offset (0 K).
FirstTempReading == 2270
LastTempReading == 2560

TempReadings ==
  {[offset |-> 3000, slope |-> 2400, adc |-> a] :
     a \in FirstTempReading..LastTempReading \cup {3000}}

InitRender ==
  /\ cycles = 0
  /\ Digit = <<0, 0, 0, 0>>
  /\ PORTE = 0
  /\ PORTF = 0
  /\ nticks = 0
  /\ written = NoPattern
  /\ \/ /\ halfsecs \in RenderTimes
        /\ twelveHour \in BOOLEAN
        /\ last = Request("time", 0, 0, 0)
     \/ /\ halfsecs = 0
        /\ twelveHour = FALSE
        /\ \E a \in VoltageReadings : last = Request("voltage", 0, 0, a)
     \/ /\ halfsecs = 0
        /\ twelveHour = FALSE
        /\ \E t \in TempReadings : last = Request("temp", t.offset, t.slope, t.adc)

RenderTime ==
  /\ last.call = "time" /\ last.ran = "none"
  /\ \E o \in DisplayTime(halfsecs, twelveHour) :
       /\ Digit' = o.D
       /\ PORTF' = o.F
       /\ written' = o
  /\ last' = [last EXCEPT !.ran = "time", !.idx = TimeIndex(halfsecs, twelveHour)]
  /\ UNCHANGED <<cycles, halfsecs, PORTE, twelveHour, nticks>>

RenderVoltage ==
  /\ last.call = "voltage" /\ last.ran = "none"
  /\ \E o \in DisplayVoltage(last.adc) :
       /\ Digit' = o.D
       /\ PORTF' = o.F
       /\ written' = o
  /\ last' = [last EXCEPT !.ran = "voltage", !.idx = VoltageIndex(last.adc)]
  /\ UNCHANGED <<cycles, halfsecs, PORTE, twelveHour, nticks>>

\* The pattern o is one that DisplayTemp leaves with celsius as its local.
RenderTemp ==
  /\ last.call = "temp" /\ last.ran = "none"
  /\ LET kelvin == Kelvin(last.offset, last.slope, last.adc)
     IN \E celsius \in CelsiusOf(kelvin) :
          \E o \in DisplayTemp(last.offset, last.slope, last.adc) :
            /\ kelvin >= 273 => o.D[1] \in CharAt(CDiv(celsius, 10))
            /\ o.D[2] \in CharAt(CMod(celsius, 10))
            /\ Digit' = o.D
            /\ PORTF' = o.F
            /\ written' = o
            /\ last' = [last EXCEPT !.ran = "temp", !.kelvin = kelvin,
                                    !.celsius = celsius,
                                    !.idx = TempIndex(kelvin, celsius)]
  /\ UNCHANGED <<cycles, halfsecs, PORTE, twelveHour, nticks>>

NextRender == RenderTime \/ RenderVoltage \/ RenderTemp

SpecRender == InitRender /\ [][NextRender]_vars

-----------------------------------------------------------------------------
(* The conversion of line 112 on its own: kelvin computed from 16-bit      *)
(* calibration values and readings at the ends and in the middle of the    *)
(* uint16_t range.                                                         *)

Words == {0, 1, 273, 2400, 3000, 4095, 4096, 32767, 32768, 65534, 65535}

InitKelvin ==
  /\ cycles = 0
  /\ halfsecs = 0
  /\ twelveHour = FALSE
  /\ Digit = <<0, 0, 0, 0>>
  /\ PORTE = 0
  /\ PORTF = 0
  /\ nticks = 0
  /\ written = NoPattern
  /\ \E offset, slope, adc \in Words : last = Request("kelvin", offset, slope, adc)

ComputeKelvin ==
  /\ last.call = "kelvin" /\ last.ran = "none"
  /\ last' = [last EXCEPT !.ran = "kelvin",
                          !.kelvin = Kelvin(last.offset, last.slope, last.adc)]
  /\ UNCHANGED <<cycles, halfsecs, Digit, PORTE, PORTF, twelveHour, nticks, written>>

SpecKelvin == InitKelvin /\ [][ComputeKelvin]_vars

-----------------------------------------------------------------------------
(* The free-running clock: from power-on no button is ever asserted.       *)

\* Number of handler runs explored: 250 half-seconds, two minutes and more.
MaxIdleTicks == 8000

TickIdle == nticks < MaxIdleTicks /\ Accumulate

BoundaryIdle ==
  /\ nticks < MaxIdleTicks
  /\ HalfSecondReached((cycles + 1) % 256)
  /\ ISR(NoButtons)

NextIdle == TickIdle \/ BoundaryIdle

SpecIdle == Init /\ [][NextIdle]_vars

-----------------------------------------------------------------------------
(* One half-second boundary with the button levels changing between the    *)
(* reads of lines 182-183 and those of line 185, from the start times of   *)
(* the first hour of the day.                                              *)

RaceTimes == { s \in StartTimes : s < HalfSecsPerHour }

InitRace == \E s \in RaceTimes : BeforeBoundary(s, CyclesPerHalfSec - 2)

TickRace == nticks < MaxDayTicks /\ Accumulate

BoundaryRace == nticks < MaxDayTicks /\ HalfSecond

NextRace == TickRace \/ BoundaryRace

SpecRace == InitRace /\ [][NextRace]_vars

-----------------------------------------------------------------------------
(* Properties.                                                             *)

\* The time that the +1 advance of a boundary gives, written out.
Advanced(before) == IF before + 1 >= 172800 THEN before + 1 - 172800 ELSE before + 1

\* The minutes snap, written out: the hour kept, the next minute of the hour,
\* no half-seconds.
Snapped(t) ==
  LET hour == t \div 7200
      minute == (t - hour * 7200) \div 120
  IN hour * 7200 + (IF minute = 59 THEN 0 ELSE minute + 1) * 120

NoButton == ~last.mins1 /\ ~last.hours1 /\ ~last.mins2 /\ ~last.hours2

\* C1: in every reachable state TimeOfDay (halfsecs) is in 0..172799.
C1_TimeOfDayInRange == halfsecs \in 0..172799

\* C2: the half-second boundary is taken on exactly every 32nd run of the
\* handler (cycles starts at 0, is in 0..31 at every return and is the run
\* count modulo 32), TimeOfDay changes at boundaries only, and at a boundary
\* with no button asserted it advances by exactly one, the advance from
\* 172799 yielding 0 (the advance is the successor modulo 172800).
C2_HalfSecondEvery32 ==
  /\ cycles \in 0..31
  /\ cycles = nticks % 32
  /\ last.boundary <=> (nticks > 0 /\ nticks % 32 = 0)
  /\ ~last.boundary => halfsecs = last.before
  /\ (last.boundary /\ NoButton) =>
       /\ last.before < 172799 => halfsecs = last.before + 1
       /\ last.before = 172799 => halfsecs = 0
       /\ halfsecs = (last.before + 1) % 172800

C2_Witness ==
  /\ last.boundary /\ NoButton
  /\ last.before = 172799
  /\ halfsecs = 0
  /\ cycles = 0

\* C3: every run of the handler first inverts every display line exactly
\* once (the 8 bits of the four digit ports, PE0 and PE1, PF5 and PF4),
\* whether or not it is a boundary and whether or not a renderer runs; a run
\* in which no renderer runs leaves the lines so, and the backplane lines,
\* never written, have the parity of the number of runs.
C3_InvertEveryTick ==
  /\ [](PORTE = 3 * (nticks % 2) /\ PORTF \in {0, 16, 32, 48})
  /\ [][ /\ nticks' = nticks + 1
         /\ last'.tog.D = <<255 - Digit[1], 255 - Digit[2], 255 - Digit[3], 255 - Digit[4]>>
         /\ last'.tog.E = 3 - PORTE
         /\ last'.tog.F = 48 - PORTF
         /\ PORTE' = 3 - PORTE
         /\ last'.ran = "none" => (Digit' = last'.tog.D /\ PORTF' = last'.tog.F) ]_vars

C3_Witness ==
  /\ last.boundary
  /\ last.ran = "voltage"
  /\ last.tog.E = 0
  /\ last.tog.D # Digit
  /\ nticks > 0

\* C4: from all lines low at power-on, a renderer writes only when the
\* backplane lines are low (inverted an even number of times), and at every
\* return of the handler each segment, decimal-point, 1A and colon line,
\* XORed with the backplane level, is the bit most recently written for it by
\* a renderer (0 if none has run).
C4_LinesFollowWritten ==
  /\ PORTE \in {0, 3}
  /\ last.ran # "none" => (PORTE = 0 /\ nticks % 2 = 0)
  /\ \A i \in 1..4 :
       /\ written.D[i] \in 0..255
       /\ Digit[i] = IF PORTE = 0 THEN written.D[i] ELSE 255 - written.D[i]
  /\ written.F \in {0, 16, 32, 48}
  /\ PORTF = IF PORTE = 0 THEN written.F ELSE 48 - written.F

C4_Witness ==
  /\ PORTE = 3
  /\ written.D[2] >= 128
  /\ Digit[2] = 255 - written.D[2]
  /\ ~last.boundary

\* C5 as stated: at a boundary with the hours button asserted and the minutes
\* button not, the run adds exactly 7200 to TimeOfDay and TimeOfDay mod 7200
\* is the same before and after the boundary.
C5_HoursAddsExactly7200 ==
  (last.boundary /\ last.hours1 /\ ~last.mins1) =>
    /\ halfsecs = last.before + 7200
    /\ halfsecs % 7200 = last.before % 7200

\* C5 as amended: at such a boundary exactly 7200 is added to the value the
\* +1 advance gives, (TimeOfDay + 1) mod 172800, and the minutes/seconds
\* component of the result is that of the advanced value.
C5_HoursAdds7200ToAdvanced ==
  (last.boundary /\ last.hours1 /\ ~last.mins1) =>
    /\ halfsecs = Advanced(last.before) + 7200
    /\ halfsecs % 7200 = Advanced(last.before) % 7200

C5_Witness ==
  /\ last.boundary /\ last.hours1 /\ ~last.mins1
  /\ last.before = 172799
  /\ halfsecs = 7200

\* C6 as stated: at a boundary with the minutes button asserted, from any
\* TimeOfDay in 0..172799, the result is a whole minute and its hour
\* component is not less than the hour component before the boundary.
C6_MinutesKeepsHour ==
  (last.boundary /\ last.mins1 /\ last.before \in 0..172799) =>
    /\ halfsecs % 120 = 0
    /\ halfsecs \div 7200 >= last.before \div 7200

\* C6 as amended: the result is a whole minute and its hour component is not
\* less than that of the value the +1 advance gives, so it is not less than
\* the hour component before the boundary unless the advance wraps the day
\* (from 172799).
C6_MinutesKeepsAdvancedHour ==
  (last.boundary /\ last.mins1 /\ last.before \in 0..172799) =>
    /\ halfsecs % 120 = 0
    /\ halfsecs \div 7200 >= Advanced(last.before) \div 7200
    /\ last.before # 172799 => halfsecs \div 7200 >= last.before \div 7200
    /\ ~last.hours1 => halfsecs = Snapped(Advanced(last.before))

C6_Witness ==
  /\ last.boundary /\ last.mins1 /\ ~last.hours1
  /\ last.before = 172799
  /\ halfsecs = 120

\* C7 as stated: at a boundary with both buttons asserted only the minutes
\* snap is applied, the one-hour advance is not.
C7_MinutesExcludesHours ==
  (last.boundary /\ last.mins1 /\ last.hours1) =>
    halfsecs = Snapped(Advanced(last.before))

\* C7 as amended: the two adjustments are independent and applied in order:
\* with both buttons asserted the minutes snap is applied and then the
\* one-hour advance is added to the snapped value.
C7_MinutesThenHours ==
  (last.boundary /\ last.mins1 /\ last.hours1) =>
    halfsecs = Snapped(Advanced(last.before)) + 7200

C7_Witness ==
  /\ last.boundary /\ last.mins1 /\ last.hours1
  /\ last.before = 7199
  /\ halfsecs = 14520

\* C8: at a boundary the renderer that runs is decided by the phase index
\* (the advanced TimeOfDay, before any adjustment, mod 120) and the two
\* button flags, first match winning: a button -> Time; phase < 108 -> Time;
\* phase = 108 -> Voltage; phase = 114 -> Temperature; otherwise none.  At most
\* one renderer runs, and none away from a boundary.
C8_RendererSelection ==
  /\ ~last.boundary => last.ran = "none"
  /\ last.boundary =>
       /\ last.ticks = Advanced(last.before) % 120
       /\ last.ran = IF last.mins2 \/ last.hours2 THEN "time"
                     ELSE IF last.ticks < 108 THEN "time"
                     ELSE IF last.ticks = 108 THEN "voltage"
                     ELSE IF last.ticks = 114 THEN "temp"
                     ELSE "none"
  /\ last.ran = "none" => (Digit = last.tog.D /\ PORTF = last.tog.F)
  /\ last.ran = "voltage" => (Digit[1] = 0 /\ Digit[4] = 62 /\ PORTF = 0)
  /\ last.ran = "temp" => (Digit[3] = 99 /\ Digit[4] = 78 /\ PORTF = 32)
  /\ last.ran = "time" => (Digit[4] \notin {62, 78} /\ Digit = written.D)

C8_Witness ==
  /\ last.boundary
  /\ last.ticks = 114
  /\ last.ran = "temp"
  /\ Digit[4] = 78

\* C9: in the 24-hour build the Time renderer, for every TimeOfDay t in
\* 0..172799, writes the glyphs of the tens and units of t div 7200 into
\* slots 0 and 1, those of (t div 120) mod 60 into slots 2 and 3, and sets
\* the colon bit to t mod 2; t = 0 renders "00","00", 13:05 renders "13","05".
C9_TimeRendered24 ==
  (last.ran = "time" /\ ~twelveHour /\ halfsecs \in 0..172799) =>
    LET hour == halfsecs \div 7200
        minute == (halfsecs \div 120) % 60
    IN /\ Digit = <<Char[hour \div 10], Char[hour % 10],
                    Char[minute \div 10], Char[minute % 10]>>
       /\ (PORTF \div 16) % 2 = halfsecs % 2
       /\ halfsecs = 0 => Digit = <<126, 126, 126, 126>>
       /\ halfsecs = 94200 => Digit = <<48, 121, 126, 91>>

C9_Witness ==
  /\ last.ran = "time" /\ ~twelveHour
  /\ halfsecs = 94200
  /\ Digit = <<48, 121, 126, 91>>

\* C10: in the 12-hour build the displayed hour is in 1..12, hour-of-day 0 is
\* displayed as 12 and hour-of-day 13 as 01 (13:05 renders "01","05").
C10_TwelveHourDisplay ==
  (last.ran = "time" /\ twelveHour /\ halfsecs \in 0..172799) =>
    LET hour == halfsecs \div 7200
    IN /\ \E d \in 1..12 : Digit[1] = Char[d \div 10] /\ Digit[2] = Char[d % 10]
       /\ hour = 0 => (Digit[1] = Char[1] /\ Digit[2] = Char[2])
       /\ hour = 13 => (Digit[1] = Char[0] /\ Digit[2] = Char[1])
       /\ halfsecs = 94200 => Digit = <<Char[0], Char[1], Char[0], Char[5]>>

\* The glyphs of the decimal digits 0..9, written out.
DigitGlyph(d) == <<126, 48, 109, 121, 51, 91, 95, 112, 127, 123>>[d + 1]

\* The scaled value that the Voltage renderer derives from the reading.
Scaled == last.adc \div 50

\* C11: for every scaled voltage v in 0..99 the Voltage renderer writes the
\* Space glyph to slot 0, the glyph of (v div 10) with bit 0x80 (the decimal
\* point) set to slot 1, the glyph of (v mod 10) to slot 2 and the V glyph to
\* slot 3, and forces the colon bit off; v = 33 renders Space, "3" with the
\* decimal point, "3", "V".
C11_VoltageRendered ==
  (last.call = "voltage" /\ last.ran = "voltage" /\ Scaled \in 0..99) =>
    /\ Digit[1] = 0
    /\ Digit[2] = DigitGlyph(Scaled \div 10) + 128
    /\ Digit[3] = DigitGlyph(Scaled % 10)
    /\ Digit[4] = 62
    /\ PORTF \in {0, 32}
    /\ Scaled = 33 => Digit = <<0, 121 + 128, 121, 62>>

C11_Witness ==
  /\ last.call = "voltage" /\ last.ran = "voltage"
  /\ Scaled = 33
  /\ Digit = <<0, 249, 121, 62>>
  /\ PORTF = 0

\* C12: for every scaled voltage v >= 100 the Voltage renderer truncates to
\* the two least significant decimal digits: slot 1 shows the digit glyph of
\* ((v div 10) mod 10) (with the decimal point), slot 2 the digit glyph of
\* (v mod 10), and no lookup is outside the glyph table.
C12_VoltageTruncated ==
  (last.call = "voltage" /\ last.ran = "voltage" /\ Scaled >= 100) =>
    /\ Digit[2] = DigitGlyph((Scaled \div 10) % 10) + 128
    /\ Digit[3] = DigitGlyph(Scaled % 10)
    /\ \A i \in 1..4 : last.idx[i] \in 0..14

\* The absolute value of kelvin - 273 over the integers.
AbsCelsius(kelvin) == IF kelvin < 273 THEN 273 - kelvin ELSE kelvin - 273

\* C13: for every kelvin value computed by the Temperature renderer, with
\* celsius = |kelvin - 273|: slot 0 is the Minus glyph when kelvin < 273 and
\* otherwise the tens digit of celsius, slot 1 is the glyph of the units
\* digit of celsius (celsius mod 10, in 0..9), slot 2 is the Degree glyph,
\* slot 3 the C glyph, and the colon bit is off; a sample equal to the offset
\* gives kelvin = 0, celsius = 273, Minus in slot 0 and the digit 3 in slot 1.
C13_TempRendered ==
  (last.call = "temp" /\ last.ran = "temp") =>
    /\ last.celsius = AbsCelsius(last.kelvin)
    /\ last.kelvin < 273 => Digit[1] = 1
    /\ last.kelvin >= 273 =>
         Digit[1] = DigitGlyph((AbsCelsius(last.kelvin) \div 10) % 10)
    /\ Digit[2] = DigitGlyph(AbsCelsius(last.kelvin) % 10)
    /\ Digit[3] = 99
    /\ Digit[4] = 78
    /\ PORTF \in {0, 32}
    /\ last.adc = last.offset =>
         /\ last.kelvin = 0
         /\ last.celsius = 273
         /\ Digit[1] = 1
         /\ Digit[2] = DigitGlyph(3)

\* floor((d * slope + 0x0800) / 4096) over the integers, for d of either
\* sign: d is split as 4096 * (d div 4096) + (d mod 4096).
ExactKelvin(d, slope) ==
  (d \div 4096) * slope + (((d % 4096) * slope + 2048) \div 4096)

\* C14 as stated: for all 16-bit offset, sample and slope the conversion
\* yields kelvin = floor(((offset - sample) * slope + 0x0800) / 4096) computed
\* over the integers, with no wrap-around in the subtraction, the
\* multiplication or the bias addition.
C14_KelvinExact ==
  (last.call = "kelvin" /\ last.ran = "kelvin") =>
    last.kelvin = ExactKelvin(last.offset - last.adc, last.slope)

\* C14, amended: for all 16-bit offset, sample and slope with
\* sample <= offset, kelvin = floor(((offset - sample) * slope + 0x0800) / 4096)
\* over the integers, the product and the bias addition not wrapping in 32
\* bits (kelvin is below 2^20); when sample > offset the 16-bit subtraction
\* wraps and kelvin = floor(((offset - sample + 65536) * slope + 0x0800) / 4096).
C14_KelvinExactAfterWrap ==
  (last.call = "kelvin" /\ last.ran = "kelvin") =>
    /\ last.adc <= last.offset =>
         last.kelvin = ExactKelvin(last.offset - last.adc, last.slope)
    /\ last.adc > last.offset =>
         last.kelvin = ExactKelvin(last.offset - last.adc + 65536, last.slope)
    /\ last.kelvin \in 0..1048575

C14_Witness ==
  /\ last.call = "kelvin" /\ last.ran = "kelvin"
  /\ last.offset = 3000 /\ last.adc = 4095 /\ last.slope = 2400
  /\ last.kelvin = 37758

\* C15: a run of the handler that is not a half-second boundary (cycles
\* after the increment below 32) changes nothing except inverting the
\* display lines and incrementing cycles: TimeOfDay is unchanged, no button
\* is read, no measurement is taken and no renderer writes any line.
C15_NonBoundaryFrame ==
  [][ cycles + 1 < 32 =>
        /\ cycles' = cycles + 1
        /\ halfsecs' = halfsecs
        /\ twelveHour' = twelveHour
        /\ Digit' = <<255 - Digit[1], 255 - Digit[2], 255 - Digit[3], 255 - Digit[4]>>
        /\ PORTE' = 3 - PORTE
        /\ PORTF' = 48 - PORTF
        /\ written' = written
        /\ ~last'.boundary
        /\ last'.ran = "none"
        /\ ~last'.mins1 /\ ~last'.hours1 /\ ~last'.mins2 /\ ~last'.hours2 ]_vars

C15_Witness ==
  /\ ~last.boundary
  /\ last.ran = "none"
  /\ nticks = 32 * 215 + 1
  /\ cycles = 1
  /\ halfsecs = last.before
  /\ written.D[4] = 62
  /\ Digit[4] = 255 - 62

\* The minute component of a time of day, written out.
MinuteOf(t) == (t \div 120) % 60

MinsHeld == last.boundary /\ last.mins1 /\ last.mins2 /\ ~last.hours1 /\ ~last.hours2

\* C16 as stated: while the minutes button is held (hours button not
\* asserted), at every half-second boundary the minute component after the
\* boundary is (minute component before the boundary + 1) mod 60, for every
\* starting TimeOfDay including the first boundary of the hold.
C16_OneMinutePerBoundary ==
  MinsHeld => MinuteOf(halfsecs) = (MinuteOf(last.before) + 1) % 60

\* C16, amended: at such a boundary the minute component after the boundary
\* is (minute component of the advanced value (TimeOfDay + 1) mod 172800,
\* + 1) mod 60: one more than the minute before, except at a boundary that
\* starts on the last half-second of a minute (TimeOfDay mod 120 = 119, which
\* only the first boundary of a hold can), where it is two more.
C16_OneMinutePastAdvanced ==
  MinsHeld =>
    /\ MinuteOf(halfsecs) = (MinuteOf(Advanced(last.before)) + 1) % 60
    /\ halfsecs % 120 = 0
    /\ last.before % 120 # 119 =>
         MinuteOf(halfsecs) = (MinuteOf(last.before) + 1) % 60
    /\ last.before % 120 = 119 =>
         MinuteOf(halfsecs) = (MinuteOf(last.before) + 2) % 60

C16_Witness ==
  /\ MinsHeld
  /\ last.before = 7199
  /\ halfsecs = 7320

\* The number of half-second boundaries taken so far, and its phase in the
\* 120 boundaries of a minute.
BoundariesTaken == nticks \div 32

IdlePhase == BoundariesTaken % 120

\* C17: with no button asserted, in every 120 consecutive half-second
\* boundaries the Voltage renderer runs exactly once (phase 108) and the
\* Temperature renderer exactly once (phase 114), the Time renderer runs at
\* the 108 boundaries with phase 0..107 and no renderer runs at the
\* remaining 10; the voltage readout stays displayed for 6 boundaries, then
\* the temperature readout for 6 boundaries, and the time display returns at
\* phase 0.  (The k-th boundary has phase k mod 120, and what runs at it and
\* what is displayed after it are functions of that phase.)
C17_AuxiliaryOncePerMinute ==
  /\ halfsecs % 120 = IdlePhase
  /\ last.boundary =>
       last.ran = IF IdlePhase \in 0..107 THEN "time"
                  ELSE IF IdlePhase = 108 THEN "voltage"
                  ELSE IF IdlePhase = 114 THEN "temp"
                  ELSE "none"
  /\ BoundariesTaken >= 1 =>
       /\ IdlePhase \in 0..107 =>
            /\ written.D[3] = DigitGlyph(((BoundariesTaken \div 120) % 60) \div 10)
            /\ written.D[4] = DigitGlyph(((BoundariesTaken \div 120) % 60) % 10)
       /\ IdlePhase \in 108..113 => (written.D[1] = 0 /\ written.D[4] = 62)
       /\ IdlePhase \in 114..119 => (written.D[3] = 99 /\ written.D[4] = 78)

C17_Witness ==
  /\ last.boundary
  /\ BoundariesTaken = 234
  /\ last.ran = "temp"
  /\ written.D[4] = 78

\* C18: button levels may change between two reads inside one handler run;
\* nevertheless at every half-second boundary at which a button adjustment
\* was applied to TimeOfDay (the value differs from the advanced one) the
\* Time renderer runs in that same boundary, and at every boundary at which
\* the Time renderer runs because of a button (at a phase of 108 or more) an
\* adjustment was applied.
C18_AdjustmentAndRendererAgree ==
  last.boundary =>
    /\ halfsecs # Advanced(last.before) => last.ran = "time"
    /\ (last.ran = "time" /\ Advanced(last.before) % 120 >= 108) =>
         halfsecs # Advanced(last.before)

\* C19: every glyph-table lookup made by the Time, Voltage and Temperature
\* renderers uses an index in 0..14, inside the 15-entry table, for every
\* reachable TimeOfDay and every 16-bit ADC sample, offset and slope.
C19_LookupsInTable ==
  last.ran \in {"time", "voltage", "temp"} =>
    \A i \in 1..4 : last.idx[i] >= 0 /\ last.idx[i] <= 14

====
